---- MODULE Spec2Model ----
(***************************************************************************)
(* Chat relay: handleChatMessage (controllers/chatController.ts) and the   *)
(* caching BotpressService (services/contactService.ts, second half):     *)
(* conversation cache, sendMessage, waitForBotResponse, listMessages.     *)
(* The upstream chat platform is the environment.                         *)
(***************************************************************************)
EXTENDS Integers, Sequences, FiniteSets, TLC

(* ------------------------------ bounds -------------------------------- *)

\* Messages one upstream conversation may hold.
MaxMsgs == 3
\* listMessages calls made by the concurrent caller.
MaxOtherCalls == 1
\* Latest value of the clock, as milliseconds past CACHE_TTL.
MaxPastTtl == 1
\* Math.random() is drawn from {0, (RandDen - 1) / RandDen}: its least value
\* and one close to 1.
RandDen == 10
\* Characters of the longest email address submitted.
MaxEmailLen == 5
\* Largest limit passed to getConversationHistory.
MaxLimit == 2

(* ------------------------- program constants -------------------------- *)

CACHE_TTL == 5 * 60 * 1000
MAX_RETRIES == 15
INITIAL_WAIT == 500
MAX_WAIT == 3000
MAX_NO_CHANGE_ATTEMPTS == 3
MAX_MESSAGE_LENGTH == 5000

(* --------------------------- JavaScript values ------------------------ *)

\* A string is a sequence of runs: n whitespace or n non-whitespace characters.
Run(ws, n) == [ws |-> ws, n |-> n]
JsUndefined == [t |-> "undefined", num |-> 0, runs |-> << >>]
JsNull == [t |-> "object", num |-> 0, runs |-> << >>]
JsNumber(x) == [t |-> "number", num |-> x, runs |-> << >>]
JsObject == [t |-> "object", num |-> 1, runs |-> << >>]
JsString(rs) == [t |-> "string", num |-> 0, runs |-> rs]

RECURSIVE SumRuns(_)
SumRuns(rs) == IF rs = << >> THEN 0 ELSE Head(rs).n + SumRuns(Tail(rs))

\* String.prototype.length
StrLength(v) == SumRuns(v.runs)

RECURSIVE DropLeadingWs(_)
DropLeadingWs(rs) ==
  IF rs # << >> /\ Head(rs).ws THEN DropLeadingWs(Tail(rs)) ELSE rs

RECURSIVE DropTrailingWs(_)
DropTrailingWs(rs) ==
  IF rs # << >> /\ rs[Len(rs)].ws
    THEN DropTrailingWs(SubSeq(rs, 1, Len(rs) - 1))
    ELSE rs

\* String.prototype.trim
StrTrim(v) == JsString(DropTrailingWs(DropLeadingWs(v.runs)))

\* typeof
TypeOf(v) == v.t

\* ToBoolean: undefined, null, 0 and "" are falsy.
Truthy(v) ==
  CASE v.t = "undefined" -> FALSE
    [] v.t = "object" -> v.num # 0
    [] v.t = "number" -> v.num # 0
    [] v.t = "string" -> StrLength(v) > 0

IsNullish(v) == v = JsUndefined \/ v = JsNull

\* message?.substring(0, 50): undefined for undefined and null, a TypeError for
\* any other value that is not a string.
OptionalSubstringThrows(v) == ~IsNullish(v) /\ TypeOf(v) # "string"

MessageInputs ==
  { JsUndefined, JsNull, JsNumber(0), JsNumber(42), JsObject,
    JsString(<< >>),
    JsString(<<Run(TRUE, 1)>>),
    JsString(<<Run(TRUE, MAX_MESSAGE_LENGTH + 1)>>),
    JsString(<<Run(FALSE, 1)>>),
    JsString(<<Run(TRUE, 1), Run(FALSE, 1), Run(TRUE, 1)>>),
    JsString(<<Run(FALSE, MAX_MESSAGE_LENGTH)>>),
    JsString(<<Run(FALSE, MAX_MESSAGE_LENGTH + 1)>>),
    JsString(<<Run(FALSE, 1), Run(TRUE, MAX_MESSAGE_LENGTH)>>) }

(* ------------------------- contact form values ----------------------- *)

\* A field of the contact form's body: its type, its ToBoolean and the
\* characters of its ToString. A character is a whitespace " ", an "@", a
\* "." or any other one, "a".
FormValue(t, truthy, chars) == [t |-> t, truthy |-> truthy, chars |-> chars]
FormMissing == FormValue("undefined", FALSE, <<"a">>)
FormString(chars) == FormValue("string", chars # << >>, chars)
FormZero == FormValue("number", FALSE, <<"a">>)
FormNumber == FormValue("number", TRUE, <<"a", "a">>)

EmailChars == {" ", "@", ".", "a"}

\* The strings of at most n characters.
Strings(n) == UNION {[1..k -> EmailChars] : k \in 0..n}

NameInputs == {FormMissing, FormString(<< >>), FormString(<<"a", "a">>), FormZero, FormNumber}
EmailInputs == {FormMissing, FormNumber} \cup {FormString(w) : w \in Strings(MaxEmailLen)}

\* [^\s@]
NotSpaceNorAt(ch) == ch \notin {" ", "@"}

\* Every address passing.
EmailRegexTestAny(chars) == TRUE

\* /^[^\s@]+@[^\s@]+\.[^\s@]+$/.test(email): the string splits into one or
\* more [^\s@], an "@", one or more [^\s@], a "." and one or more [^\s@].
EmailRegexTest(chars) ==
  \E at \in 2..Len(chars), dot \in 4..(Len(chars) - 1) :
    /\ chars[at] = "@" /\ chars[dot] = "." /\ at + 1 < dot
    /\ \A p \in (1..(at - 1)) \cup ((at + 1)..(dot - 1)) \cup ((dot + 1)..Len(chars)) :
         NotSpaceNorAt(chars[p])

(* ------------------------------ identifiers --------------------------- *)

NoKey == ""
\* The session keys upstream issues: that of a user who exists, and that of
\* the user createUser creates.
Keys == {"k1", "k2"}
\* The x-user-key header: absent, a key upstream issued, or one it did not.
HeaderKeys == {NoKey, "k1", "kx"}
NoConv == ""
ConvIds == {"c1", "c2"}
NullMsg == [id |-> 0, createdAt |-> 0]

\* The logger.info call that precedes the validation evaluates
\* message?.substring(0, 50); a TypeError there reaches the outer catch.
LoggingThrows(message) == OptionalSubstringThrows(message)

\* The error code of the input validation of handleChatMessage; "" when the
\* message passes.
ValidateInput(message) ==
  IF ~Truthy(message) \/ TypeOf(message) # "string" THEN "INVALID_MESSAGE"
  ELSE IF StrLength(StrTrim(message)) = 0 THEN "EMPTY_MESSAGE"
  ELSE IF StrLength(message) > MAX_MESSAGE_LENGTH THEN "MESSAGE_TOO_LONG"
  ELSE ""

(* ------------------------------- backoff ------------------------------ *)

\* Durations are counted in 1/TicksPerMs ms, and a backoff in
\* 1/(TicksPerMs * 10 * RandDen) ms, so that every value the code computes
\* from INITIAL_WAIT, 1.5^attempt and the 10% jitter is an integer.
TicksPerMs == 16
BackoffUnit == TicksPerMs * 10 * RandDen

\* INITIAL_WAIT * Math.pow(1.5, attempt) in ticks: exact up to attempt 6,
\* rounded down after that, where it is far beyond MAX_WAIT.
RECURSIVE Pow15Wait(_)
Pow15Wait(attempt) ==
  IF attempt = 0 THEN INITIAL_WAIT * TicksPerMs
  ELSE (Pow15Wait(attempt - 1) * 3) \div 2

Min(a, b) == IF a <= b THEN a ELSE b

\* Math.min(INITIAL_WAIT * Math.pow(1.5, attempt), MAX_WAIT), in ticks
Exponential(attempt) == Min(Pow15Wait(attempt), MAX_WAIT * TicksPerMs)

\* The jitter taken off instead of added.
JitterSubtracted(exponential, k) == 0 - k * exponential

\* jitter = Math.random() * 0.1 * exponential, with Math.random() = k / RandDen
Jitter(exponential, k) == k * exponential

\* calculateBackoff(attempt), in 1/BackoffUnit ms
calculateBackoff(attempt, k) ==
  Exponential(attempt) * 10 * RandDen + Jitter(Exponential(attempt), k)

(* -------------------------------- state ------------------------------- *)

VARIABLES
  now,                \* Date.now(), in ms
  conversationCache,  \* BotpressService.conversationCache: conversation id -> entry
  upMessages,         \* upstream: conversation id -> its messages, oldest first
  upLag,              \* upstream: the newest message of the conversation is not listed yet
  upOwner,            \* upstream: conversation id -> session key of its owner, "" if not created
  upClock,            \* upstream: createdAt of the newest message
  nextId,             \* upstream: id of the next message
  upOrder,            \* upstream: order in which a message list is presented
  req,                \* the chat request being handled by handleChatMessage
  other,              \* a listMessages call of another in-flight request
  contact,            \* the contact submission handled by ContactController.sendMessage
  hist                \* history variables, read by the properties only

vars == <<now, conversationCache, upMessages, upLag, upOwner, upClock, nextId,
          upOrder, req, other, contact, hist>>

upstream == <<upMessages, upLag, upOwner, upClock, nextId, upOrder>>

\* The instants at which the clock is read: the start, the ms at which an
\* entry written at the start reaches its ttl, and the ms after it.
Instants == {0} \cup {CACHE_TTL + j : j \in 0..MaxPastTtl}

NoResp == [ok |-> "", key |-> "", conv |-> "", msg |-> NullMsg, messages |-> << >>]
RespFail == [NoResp EXCEPT !.ok = "fail"]

ReqInit ==
  [ pc |-> "idle", message |-> JsUndefined, userKey |-> NoKey,
    conversationId |-> NoConv, currentUserKey |-> NoKey,
    currentConversationId |-> NoConv, sentMessage |-> NullMsg,
    i |-> 0, lastKnownMessageCount |-> 0, noChangeCount |-> 0,
    backoffTime |-> 0, botResponse |-> NullMsg, messages |-> << >>,
    resp |-> NoResp, status |-> 0, code |-> "", exit |-> "",
    responses |-> 0 ]

OtherInit == [pc |-> "idle", userKey |-> NoKey, conversationId |-> NoConv,
              resp |-> NoResp, calls |-> 0, limit |-> 0]

\* The contact submission: the fields of its body, the answers of the relay
\* to the connection check and to the send, the calls made and the status.
ContactInit ==
  [ pc |-> "idle", name |-> FormMissing, email |-> FormMissing,
    message |-> FormMissing, isValid |-> FALSE, relay |-> "",
    validateCalls |-> 0, sendCalls |-> 0, status |-> 0 ]

\* A getConversationHistory call that ended: the limit passed, the list
\* listMessages returned, and what the call returned unless it threw.
NoHistory == [outcome |-> "", limit |-> 0, messages |-> << >>, returned |-> << >>]

NoCalls == [createUser |-> 0, createConversation |-> 0, sendMessage |-> 0,
            listMessages |-> 0]

HistInit ==
  [ calls |-> NoCalls,        \* upstream calls of the current request
    polls |-> 0,              \* listMessages calls of the current waiter
    sendSeq |-> [c \in ConvIds |-> 0],    \* sends completed per conversation
    cacheAsOf |-> [c \in ConvIds |-> 0],  \* sendSeq when the cached list was served
    reqAsOf |-> 0,            \* sendSeq when the request's pending list was served
    otherAsOf |-> 0,          \* sendSeq when the other caller's pending list was served
    replyAtPoll |-> FALSE,    \* upstream listed a reply when some poll was made
    counts |-> << >>,         \* message counts of the polls that found the sent message
    dropped |-> FALSE,        \* the request's send removed a cache entry
    early |-> FALSE,          \* the waiter ended before its last attempt
    cleared |-> {},           \* conversations cleared from the cache and not listed since
    args |-> [key |-> NoKey, conv |-> NoConv],  \* key and conversation of the request's last upstream call
    sent |-> [key |-> NoKey, conv |-> NoConv, msg |-> NullMsg],  \* the request's POST /messages: key, conversation, envelope returned
    unaccepted |-> FALSE,     \* a list was returned to a call whose key upstream does not accept
    history |-> NoHistory ]   \* the last getConversationHistory call that ended

\* The history variables of the waiter end with it.
WaiterHist(h, r) ==
  IF r.pc = "history"
    THEN [h EXCEPT !.polls = 0, !.counts = << >>, !.early = h.polls < MAX_RETRIES]
    ELSE h

Init ==
  /\ now = 0
  /\ conversationCache = [c \in {} |-> 0]
  /\ upMessages = [c \in ConvIds |-> << >>]
  /\ upLag = [c \in ConvIds |-> FALSE]
  /\ upOwner = [c \in ConvIds |-> IF c = "c1" THEN "k1" ELSE NoKey]
  /\ upClock = 1
  /\ nextId = 1
  /\ upOrder \in {"asc", "desc"}
  /\ req = ReqInit
  /\ other = OtherInit
  /\ contact = ContactInit
  /\ hist = HistInit

(* ---------------------------- the upstream ---------------------------- *)

RECURSIVE Reverse(_)
Reverse(s) == IF s = << >> THEN << >> ELSE Append(Reverse(Tail(s)), Head(s))

\* The message list upstream presents for conversation c.
Listed(c) ==
  LET all == upMessages[c]
      indexed == IF upLag[c] THEN SubSeq(all, 1, Len(all) - 1) ELSE all
  IN IF upOrder = "asc" THEN indexed ELSE Reverse(indexed)

\* Upstream accepts session key k for conversation c.
Accepts(k, c) == c \in ConvIds /\ k # NoKey /\ upOwner[c] = k

\* POST /users
NewKey == "k2"
CreateUserResponses == {RespFail, [NoResp EXCEPT !.ok = "ok", !.key = NewKey]}

\* POST /conversations: a new conversation, a body without an id, or a failure.
CreateConversationResponses(k) ==
  {RespFail, [NoResp EXCEPT !.ok = "noid"]}
    \cup {[NoResp EXCEPT !.ok = "ok", !.conv = c] :
            c \in {d \in ConvIds : k \in Keys /\ upOwner[d] = NoKey}}

\* GET conversations/{c}/messages: the list, a body without messages, or a failure.
ListResponses(k, c) ==
  {RespFail}
    \cup (IF Accepts(k, c)
            THEN {[NoResp EXCEPT !.ok = "ok", !.messages = Listed(c)],
                  [NoResp EXCEPT !.ok = "nofield"]}
            ELSE {})

\* Upstream stores a new message in conversation c; it is listed at once
\* unless lag.
StoreMessage(c, createdAt, lag) ==
  /\ upMessages' = [upMessages EXCEPT ![c] = Append(@, [id |-> nextId, createdAt |-> createdAt])]
  /\ upLag' = [upLag EXCEPT ![c] = lag]
  /\ upClock' = createdAt
  /\ nextId' = nextId + 1

CanStore(c) == c \in ConvIds /\ Len(upMessages[c]) < MaxMsgs /\ ~upLag[c]

\* The bot (or anyone else) adds a message to a conversation that has some.
BotReply(c, createdAt) ==
  /\ CanStore(c)
  /\ upMessages[c] # << >>
  /\ StoreMessage(c, createdAt, FALSE)
  /\ UNCHANGED <<contact, now, conversationCache, upOwner, upOrder, req, other, hist>>

\* Upstream starts to list the newest message of c.
Index(c) ==
  /\ upLag[c]
  /\ upLag' = [upLag EXCEPT ![c] = FALSE]
  /\ UNCHANGED <<contact, now, conversationCache, upMessages, upOwner, upClock, nextId,
                 upOrder, req, other, hist>>

\* Time passes.
Tick(t) ==
  /\ t > now
  /\ now' = t
  /\ UNCHANGED <<contact, conversationCache, upstream, req, other, hist>>

(* ------------------------- the conversation cache --------------------- *)

Expired(entry, t) == t - entry.lastUpdated > entry.ttl

\* A get that evicts nothing.
clearExpiredCacheNot(cache, t) == cache

\* clearExpiredCache()
clearExpiredCache(cache, t) ==
  [c \in {d \in DOMAIN cache : ~Expired(cache[d], t)} |-> cache[c]]

\* An entry as old as its ttl still served.
FreshAtTtl(entry, t) == t - entry.lastUpdated <= entry.ttl

Fresh(entry, t) == t - entry.lastUpdated < entry.ttl

\* getCachedMessages(conversationId): the entry is returned when the cache,
\* expired entries cleared, holds one that is fresh.
CacheHit(cache, t, c) ==
  LET cleared == clearExpiredCache(cache, t)
  IN c \in DOMAIN cleared /\ Fresh(cleared[c], t)

getCachedMessages(cache, t, c) ==
  IF CacheHit(cache, t, c) THEN cache[c].messages ELSE << >>

\* A put that keeps the timestamp of the entry it finds.
updateCacheKeepsStamp(cache, t, c, messages) ==
  [d \in DOMAIN cache \cup {c} |->
     IF d = c
       THEN [messages |-> messages,
             lastUpdated |-> IF c \in DOMAIN cache THEN cache[c].lastUpdated ELSE t,
             ttl |-> CACHE_TTL]
       ELSE cache[d]]

\* updateCache(conversationId, messages)
updateCache(cache, t, c, messages) ==
  [d \in DOMAIN cache \cup {c} |->
     IF d = c THEN [messages |-> messages, lastUpdated |-> t, ttl |-> CACHE_TTL]
     ELSE cache[d]]

\* conversationCache.delete(conversationId)
CacheDelete(cache, c) == [d \in DOMAIN cache \ {c} |-> cache[d]]

(* --------------------------- waitForBotResponse ----------------------- *)

\* messages.find(m => m.id === id); NullMsg stands for undefined
Find(messages, id) ==
  IF \E j \in 1..Len(messages) : messages[j].id = id
    THEN messages[CHOOSE j \in 1..Len(messages) :
                    /\ messages[j].id = id
                    /\ \A h \in 1..(j - 1) : messages[h].id # id]
    ELSE NullMsg

\* new Date(msg.createdAt) > new Date(lastMessage.createdAt)
After(msg, lastMessage) == msg.createdAt > lastMessage.createdAt

\* The filter of the messages that follow the user's message.
BotMessages(messages, lastMessageId, lastMessage) ==
  LET Keep(msg) == msg.id # lastMessageId /\ After(msg, lastMessage)
  IN SelectSeq(messages, Keep)

\* The no-change counter never counting.
CountNoChangeNever(r, messages) ==
  [r EXCEPT !.noChangeCount = 0, !.lastKnownMessageCount = Len(messages)]

\* The poll that sets the count taken for the first without change.
CountNoChangeFirstToo(r, messages) ==
  IF Len(messages) = r.lastKnownMessageCount
    THEN [r EXCEPT !.noChangeCount = @ + 1]
    ELSE [r EXCEPT !.noChangeCount = 1, !.lastKnownMessageCount = Len(messages)]

\* The comparison of the list's length with lastKnownMessageCount.
CountNoChange(r, messages) ==
  IF Len(messages) = r.lastKnownMessageCount
    THEN [r EXCEPT !.noChangeCount = @ + 1]
    ELSE [r EXCEPT !.noChangeCount = 0, !.lastKnownMessageCount = Len(messages)]

\* The attempt counting a list that lacks the sent message like any other.
AttemptCountsAbsent(r, messages) ==
  LET lastMessage == Find(messages, r.sentMessage.id)
      counted == CountNoChange(r, messages)
      botMessages == BotMessages(messages, r.sentMessage.id, lastMessage)
  IN IF Len(messages) = r.lastKnownMessageCount
          /\ counted.noChangeCount >= MAX_NO_CHANGE_ATTEMPTS
       THEN [counted EXCEPT !.exit = "nochange"]
     ELSE IF lastMessage # NullMsg /\ Len(botMessages) > 0
       THEN [counted EXCEPT !.exit = "reply", !.botResponse = botMessages[1]]
     ELSE counted

\* The body of the waiter's loop once the list of the attempt is there;
\* exit stays "" when the loop goes on.
Attempt(r, messages) ==
  LET lastMessage == Find(messages, r.sentMessage.id)
      counted == CountNoChange(r, messages)
      botMessages == BotMessages(messages, r.sentMessage.id, lastMessage)
  IN IF lastMessage = NullMsg THEN r
     ELSE IF Len(messages) = r.lastKnownMessageCount
             /\ counted.noChangeCount >= MAX_NO_CHANGE_ATTEMPTS
       THEN [counted EXCEPT !.exit = "nochange"]
     ELSE IF Len(botMessages) > 0
       THEN [counted EXCEPT !.exit = "reply", !.botResponse = botMessages[1]]
     ELSE counted

\* The handler answering as soon as the waiter is over, without the history.
ToHistorySkipped(r) ==
  [r EXCEPT !.pc = "done", !.status = 200, !.responses = @ + 1,
            !.backoffTime = 0, !.resp = NoResp, !.i = 0,
            !.lastKnownMessageCount = 0, !.noChangeCount = 0]

\* The waiter has returned or thrown: handleChatMessage goes on to the
\* history. The waiter's locals are gone.
ToHistory(r) ==
  [r EXCEPT !.pc = "history", !.backoffTime = 0, !.resp = NoResp, !.i = 0,
            !.lastKnownMessageCount = 0, !.noChangeCount = 0]

\* The loop without its test.
NextAttemptUnbounded(r, k) ==
  IF r.exit # "" THEN ToHistory(r)
  ELSE [r EXCEPT !.i = @ + 1, !.backoffTime = calculateBackoff(r.i + 1, k),
                 !.pc = "sleep", !.resp = NoResp]

\* i++ and the loop's test: the next backoff and wait, or the return of null.
NextAttempt(r, k) ==
  IF r.exit # "" THEN ToHistory(r)
  ELSE IF r.i + 1 < MAX_RETRIES
    THEN [r EXCEPT !.i = @ + 1, !.backoffTime = calculateBackoff(r.i + 1, k),
                   !.pc = "sleep", !.resp = NoResp]
  ELSE ToHistory([r EXCEPT !.i = @ + 1, !.exit = "attempts"])

\* A failed poll ending the request with a 500.
PollThrowsFatal(r) ==
  [r EXCEPT !.pc = "done", !.status = 500, !.code = "WAIT_FAILED",
            !.exit = "error", !.responses = @ + 1, !.resp = NoResp]

\* A failed poll swallowed by the waiter, which returns null.
PollThrowsNull(r) == ToHistory([r EXCEPT !.exit = "nochange"])

\* A poll's listMessages threw: the waiter rethrows, the handler logs it.
PollThrows(r) == ToHistory([r EXCEPT !.exit = "error"])

(* ----------------------------- handleChatMessage ---------------------- *)

\* A response without its code.
RespondNoCode(r, status, code) ==
  [r EXCEPT !.pc = "done", !.status = status, !.code = "", !.resp = NoResp,
            !.backoffTime = 0, !.responses = @ + 1]

\* res.status(status).json({..., code})
Respond(r, status, code) ==
  [r EXCEPT !.pc = "done", !.status = status, !.code = code, !.resp = NoResp,
            !.backoffTime = 0, !.responses = @ + 1]

\* A response that echoes the key and the conversation id of the request.
ResponseOfRequest(r) ==
  [ message |-> r.sentMessage, botResponse |-> r.botResponse,
    conversation |-> [id |-> r.conversationId, isStarted |-> TRUE],
    messages |-> r.messages, user |-> [key |-> r.userKey] ]

\* const response: ChatResponse = {...}, the body of the 200 response.
Response(r) ==
  [ message |-> r.sentMessage, botResponse |-> r.botResponse,
    conversation |-> [id |-> r.currentConversationId, isStarted |-> TRUE],
    messages |-> r.messages, user |-> [key |-> r.currentUserKey] ]

\* A failed history list failing the request.
HistoryFailedFatal(r) == Respond(r, 500, "HISTORY_FAILED")

\* The history list threw: messages stays [], and the response is sent.
HistoryFailed(r) == Respond([r EXCEPT !.messages = << >>], 200, "")

\* Every request made to create its user.
NeedsUserAlways(r) == TRUE

\* if (!currentUserKey)
NeedsUser(r) == r.currentUserKey = NoKey

\* if (!currentConversationId)
NeedsConversation(r) == r.conversationId = NoConv

\* Upstream lists the sent message and a message after it.
ReplyListed(c, sent) ==
  /\ Find(Listed(c), sent.id) # NullMsg
  /\ \E j \in 1..Len(Listed(c)) :
       Listed(c)[j].id # sent.id /\ Listed(c)[j].createdAt > sent.createdAt

Counting(h, r, messages) ==
  IF Find(messages, r.sentMessage.id) # NullMsg
    THEN [h EXCEPT !.counts = Append(@, Len(messages))]
    ELSE h

\* The request arrives: the log line, then the validation of the input.
Receive(message, userKey, conversationId) ==
  /\ req.pc = "idle"
  /\ LET r == [ReqInit EXCEPT !.message = message, !.userKey = userKey,
                              !.conversationId = conversationId]
     IN req' = IF LoggingThrows(message)
                 THEN Respond(r, 500, "INTERNAL_SERVER_ERROR")
               ELSE IF ValidateInput(message) # ""
                 THEN Respond(r, 400, ValidateInput(message))
               ELSE [r EXCEPT !.pc = "ensureUser", !.currentUserKey = userKey]
  /\ UNCHANGED <<contact, now, conversationCache, upstream, other, hist>>

\* Get or create user: createUser() is called when no key came with the request.
EnsureUser ==
  /\ req.pc = "ensureUser"
  /\ IF NeedsUser(req)
       THEN \E resp \in CreateUserResponses :
              /\ req' = [req EXCEPT !.pc = "awaitUser", !.resp = resp]
              /\ hist' = [hist EXCEPT !.calls.createUser = @ + 1]
       ELSE /\ req' = [req EXCEPT !.pc = "ensureConv"]
            /\ hist' = hist
  /\ UNCHANGED <<contact, now, conversationCache, upstream, other>>

UserReturn ==
  /\ req.pc = "awaitUser"
  /\ req' = IF req.resp.ok = "ok"
              THEN [req EXCEPT !.currentUserKey = req.resp.key,
                               !.pc = "ensureConv", !.resp = NoResp]
              ELSE Respond(req, 500, "USER_CREATION_FAILED")
  /\ UNCHANGED <<contact, now, conversationCache, upstream, other, hist>>

\* The session key of the header, whatever createUser returned.
CallKeyOfHeader(r) == r.userKey

\* The session key the handler passes to the upstream calls it makes after
\* the user step.
CallKey(r) == r.currentUserKey

\* Get or create conversation.
EnsureConversation ==
  /\ req.pc = "ensureConv"
  /\ IF NeedsConversation(req)
       THEN \E resp \in CreateConversationResponses(CallKey(req)) :
              /\ req' = [req EXCEPT !.pc = "awaitConv", !.resp = resp]
              /\ upOwner' = IF resp.ok = "ok"
                              THEN [upOwner EXCEPT ![resp.conv] = CallKey(req)]
                              ELSE upOwner
              /\ hist' = [hist EXCEPT !.calls.createConversation = @ + 1,
                             !.args = [key |-> CallKey(req), conv |-> NoConv]]
       ELSE /\ req' = [req EXCEPT !.pc = "send",
                                  !.currentConversationId = req.conversationId]
            /\ UNCHANGED <<upOwner, hist>>
  /\ UNCHANGED <<contact, now, conversationCache, upMessages, upLag, upClock, nextId,
                 upOrder, other>>

ConversationReturn ==
  /\ req.pc = "awaitConv"
  /\ req' = IF req.resp.ok = "ok"
              THEN [req EXCEPT !.currentConversationId = req.resp.conv,
                               !.pc = "send", !.resp = NoResp]
              ELSE Respond(req, 500, "CONVERSATION_CREATION_FAILED")
  /\ UNCHANGED <<contact, now, conversationCache, upstream, other, hist>>

\* sendMessage up to its await: POST /messages, which upstream stores,
\* listing it at once or later, or which fails. The text is not read again.
SendMessage(ok, lag) ==
  /\ req.pc = "send"
  /\ LET c == req.currentConversationId
     IN IF ok
          THEN /\ Accepts(CallKey(req), c)
               /\ CanStore(c)
               /\ StoreMessage(c, upClock + 1, lag)
               /\ req' = [req EXCEPT !.pc = "awaitSend", !.message = JsUndefined,
                            !.resp = [NoResp EXCEPT !.ok = "ok",
                                        !.msg = [id |-> nextId, createdAt |-> upClock + 1]]]
          ELSE /\ req' = [req EXCEPT !.pc = "awaitSend", !.message = JsUndefined,
                                     !.resp = RespFail]
               /\ UNCHANGED <<upMessages, upLag, upClock, nextId>>
  /\ hist' = [hist EXCEPT !.calls.sendMessage = @ + 1,
                 !.args = [key |-> CallKey(req), conv |-> req.currentConversationId],
                 !.sent = [key |-> CallKey(req), conv |-> req.currentConversationId,
                           msg |-> req'.resp.msg]]
  /\ UNCHANGED <<contact, now, conversationCache, upOwner, upOrder, other>>

\* The entry left in place.
InvalidateOnSendNot(cache, c) == cache

\* The cache after sendMessage's POST has succeeded.
InvalidateOnSend(cache, c) == CacheDelete(cache, c)

\* The entry deleted whether the POST succeeded or not.
SendFailedInvalidates(cache, c) == CacheDelete(cache, c)

\* The cache after sendMessage's POST has failed: the catch block rethrows.
SendFailed(cache, c) == cache

\* sendMessage after its await: the cache entry is deleted on success; the
\* handler then enters waitForBotResponse, which sleeps before its first poll.
SendReturn(k) ==
  /\ req.pc = "awaitSend"
  /\ LET c == req.currentConversationId
     IN IF req.resp.ok = "ok"
          THEN /\ conversationCache' = InvalidateOnSend(conversationCache, c)
               /\ req' = [req EXCEPT !.sentMessage = req.resp.msg, !.resp = NoResp,
                            !.pc = "sleep", !.i = 0, !.lastKnownMessageCount = 0,
                            !.noChangeCount = 0,
                            !.backoffTime = calculateBackoff(0, k)]
               /\ hist' = [hist EXCEPT !.sendSeq[c] = @ + 1,
                             !.dropped = c \in DOMAIN conversationCache]
          ELSE /\ req' = Respond(req, 500, "MESSAGE_SEND_FAILED")
               /\ conversationCache' = SendFailed(conversationCache, c)
               /\ hist' = hist
  /\ UNCHANGED <<contact, now, upstream, other>>

\* The backoff is over: listMessages up to its await. A cache hit is the
\* attempt's list at once; on a miss the GET is sent.
Poll(k) ==
  /\ req.pc = "sleep"
  /\ LET c == req.currentConversationId
         h == [hist EXCEPT !.polls = @ + 1,
                 !.replyAtPoll = @ \/ ReplyListed(c, req.sentMessage),
                 !.cleared = @ \ {c}]
         cached == getCachedMessages(conversationCache, now, c)
     IN /\ conversationCache' = clearExpiredCache(conversationCache, now)
        /\ IF CacheHit(conversationCache, now, c)
             THEN /\ req' = NextAttempt(Attempt(req, cached), k)
                  /\ hist' = WaiterHist(Counting(h, req, cached), req')
             ELSE \E resp \in ListResponses(CallKey(req), c) :
                    /\ req' = [req EXCEPT !.pc = "awaitPoll", !.resp = resp,
                                          !.backoffTime = 0]
                    /\ hist' = [h EXCEPT !.calls.listMessages = @ + 1,
                                         !.reqAsOf = h.sendSeq[c],
                                         !.args = [key |-> CallKey(req), conv |-> c]]
  /\ UNCHANGED <<contact, now, upstream, other>>

\* listMessages after its await, and the rest of the attempt.
PollReturn(k) ==
  /\ req.pc = "awaitPoll"
  /\ LET c == req.currentConversationId
         messages == req.resp.messages
     IN IF req.resp.ok = "ok"
          THEN /\ conversationCache' = updateCache(conversationCache, now, c, messages)
               /\ req' = NextAttempt(Attempt(req, messages), k)
               /\ hist' = WaiterHist(
                            Counting([hist EXCEPT !.cacheAsOf[c] = hist.reqAsOf],
                                     req, messages),
                            req')
          ELSE /\ req' = PollThrows(req)
               /\ hist' = WaiterHist(hist, req')
               /\ UNCHANGED conversationCache
  /\ UNCHANGED <<contact, now, upstream, other>>

\* Get all messages: listMessages up to its await.
History ==
  /\ req.pc = "history"
  /\ LET c == req.currentConversationId
         cached == getCachedMessages(conversationCache, now, c)
     IN /\ conversationCache' = clearExpiredCache(conversationCache, now)
        /\ IF CacheHit(conversationCache, now, c)
             THEN /\ req' = Respond([req EXCEPT !.messages = cached], 200, "")
                  /\ hist' = [hist EXCEPT !.cleared = @ \ {c}]
             ELSE \E resp \in ListResponses(CallKey(req), c) :
                    /\ req' = [req EXCEPT !.pc = "awaitHistory", !.resp = resp]
                    /\ hist' = [hist EXCEPT !.calls.listMessages = @ + 1,
                                            !.reqAsOf = hist.sendSeq[c],
                                            !.cleared = @ \ {c},
                                            !.args = [key |-> CallKey(req), conv |-> c]]
  /\ UNCHANGED <<contact, now, upstream, other>>

\* listMessages after its await; a failure leaves the history empty. Then the
\* response is sent.
HistoryReturn ==
  /\ req.pc = "awaitHistory"
  /\ LET c == req.currentConversationId
         messages == req.resp.messages
     IN IF req.resp.ok = "ok"
          THEN /\ conversationCache' = updateCache(conversationCache, now, c, messages)
               /\ req' = Respond([req EXCEPT !.messages = messages], 200, "")
               /\ hist' = [hist EXCEPT !.cacheAsOf[c] = hist.reqAsOf]
          ELSE /\ req' = HistoryFailed(req)
               /\ UNCHANGED <<conversationCache, hist>>
  /\ UNCHANGED <<contact, now, upstream, other>>

(* ------------------ listMessages of another in-flight request --------- *)

\* listMessages(userKey, conversationId) up to its await.
OtherList(userKey, c) ==
  /\ other.pc = "idle"
  /\ other.calls < MaxOtherCalls
  /\ LET cached == getCachedMessages(conversationCache, now, c)
     IN /\ conversationCache' = clearExpiredCache(conversationCache, now)
        /\ IF CacheHit(conversationCache, now, c)
             THEN /\ other' = [other EXCEPT !.calls = @ + 1]
                  /\ hist' = [hist EXCEPT !.cleared = @ \ {c},
                                 !.unaccepted = @ \/ ~Accepts(userKey, c)]
             ELSE \E resp \in ListResponses(userKey, c) :
                    /\ other' = [other EXCEPT !.pc = "awaitList", !.calls = @ + 1,
                                   !.userKey = userKey, !.conversationId = c,
                                   !.resp = resp]
                    /\ hist' = [hist EXCEPT !.otherAsOf = hist.sendSeq[c],
                                            !.cleared = @ \ {c}]
  /\ UNCHANGED <<contact, now, upstream, req>>

\* listMessages after its await.
OtherListReturn ==
  /\ other.pc = "awaitList"
  /\ LET c == other.conversationId
         messages == other.resp.messages
     IN IF other.resp.ok = "ok"
          THEN /\ conversationCache' = updateCache(conversationCache, now, c, messages)
               /\ hist' = [hist EXCEPT !.cacheAsOf[c] = hist.otherAsOf]
          ELSE UNCHANGED <<conversationCache, hist>>
  /\ other' = [OtherInit EXCEPT !.calls = other.calls]
  /\ UNCHANGED <<contact, now, upstream, req>>

(* ------------------------ getConversationHistory ---------------------- *)

\* limit: number = 50
DEFAULT_LIMIT == 50

\* The argument left out.
NoLimit == -1

Limit(limit) == IF limit = NoLimit THEN DEFAULT_LIMIT ELSE limit

\* Array.prototype.slice(start) with one argument: a negative start counts
\* from the end, and start -0 is 0.
Slice(messages, start) ==
  LET n == Len(messages)
      k == IF start < 0 THEN (IF n + start > 0 THEN n + start ELSE 0)
           ELSE (IF start < n THEN start ELSE n)
  IN SubSeq(messages, k + 1, n)

\* response.messages.slice(-limit)
LastMessages(messages, limit) == Slice(messages, 0 - Limit(limit))

\* getConversationHistory(userKey, conversationId, limit) up to the await of
\* listMessages; a cache hit is sliced and returned at once.
GetConversationHistory(userKey, c, limit) ==
  /\ other.pc = "idle"
  /\ other.calls < MaxOtherCalls
  /\ LET cached == getCachedMessages(conversationCache, now, c)
     IN /\ conversationCache' = clearExpiredCache(conversationCache, now)
        /\ IF CacheHit(conversationCache, now, c)
             THEN /\ other' = [other EXCEPT !.calls = @ + 1]
                  /\ hist' = [hist EXCEPT !.cleared = @ \ {c},
                                 !.unaccepted = @ \/ ~Accepts(userKey, c),
                                 !.history = [outcome |-> "returned", limit |-> limit,
                                              messages |-> cached,
                                              returned |-> LastMessages(cached, limit)]]
             ELSE \E resp \in ListResponses(userKey, c) :
                    /\ other' = [other EXCEPT !.pc = "awaitHistoryList",
                                   !.calls = @ + 1, !.userKey = userKey,
                                   !.conversationId = c, !.resp = resp,
                                   !.limit = limit]
                    /\ hist' = [hist EXCEPT !.otherAsOf = hist.sendSeq[c],
                                            !.cleared = @ \ {c}]
  /\ UNCHANGED <<contact, now, upstream, req>>

\* listMessages after its await, then the slice; a failure of listMessages,
\* and a body without messages, make the call throw.
GetConversationHistoryReturn ==
  /\ other.pc = "awaitHistoryList"
  /\ LET c == other.conversationId
         messages == other.resp.messages
     IN IF other.resp.ok = "ok"
          THEN /\ conversationCache' = updateCache(conversationCache, now, c, messages)
               /\ hist' = [hist EXCEPT !.cacheAsOf[c] = hist.otherAsOf,
                              !.history = [outcome |-> "returned", limit |-> other.limit,
                                           messages |-> messages,
                                           returned |-> LastMessages(messages, other.limit)]]
          ELSE /\ hist' = [hist EXCEPT !.history = [NoHistory EXCEPT !.outcome = "threw",
                                                                    !.limit = other.limit]]
               /\ UNCHANGED conversationCache
  /\ other' = [OtherInit EXCEPT !.calls = other.calls]
  /\ UNCHANGED <<contact, now, upstream, req>>

(* ------------------- the cache operations left to callers ------------ *)

\* clearConversationCache(conversationId)
clearConversationCache(c) ==
  /\ conversationCache' = CacheDelete(conversationCache, c)
  /\ hist' = [hist EXCEPT !.cleared = @ \cup {c}]
  /\ UNCHANGED <<contact, now, upstream, req, other>>

\* clearAllCache()
clearAllCache ==
  /\ conversationCache' = [c \in {} |-> 0]
  /\ hist' = [hist EXCEPT !.cleared = ConvIds]
  /\ UNCHANGED <<contact, now, upstream, req, other>>

(* ----------------------- ContactController.sendMessage --------------- *)

\* What a POST to the relay comes to: fetch or response.json() throws, or the
\* body's success is true, another truthy value, or falsy.
RelayOutcomes == {"throws", "true", "truthy", "falsy"}

ContactRespond(c, status) == [c EXCEPT !.pc = "done", !.status = status]

\* The basic validation and the email format validation: the status they
\* answer with, 0 when the fields pass.
ContactValidation(name, email, message) ==
  IF ~name.truthy \/ ~email.truthy \/ ~message.truthy THEN 400
  ELSE IF ~EmailRegexTest(email.chars) THEN 400
  ELSE 0

\* The submission arrives and is validated.
ContactSubmit(name, email, message) ==
  /\ contact.pc = "idle"
  /\ LET c == [ContactInit EXCEPT !.name = name, !.email = email, !.message = message]
     IN contact' = IF ContactValidation(name, email, message) # 0
                     THEN ContactRespond(c, ContactValidation(name, email, message))
                     ELSE [c EXCEPT !.pc = "validate"]
  /\ UNCHANGED <<now, conversationCache, upstream, req, other, hist>>

\* validateConnection() up to its await: the test POST.
ContactValidate(outcome) ==
  /\ contact.pc = "validate"
  /\ contact' = [contact EXCEPT !.pc = "awaitValidate", !.relay = outcome,
                                !.validateCalls = @ + 1]
  /\ UNCHANGED <<now, conversationCache, upstream, req, other, hist>>

\* validateConnection() returns result.success === true, false when it caught
\* an error; the controller answers 503 when it is false.
ContactValidated ==
  /\ contact.pc = "awaitValidate"
  /\ LET isValid == contact.relay = "true"
         c == [contact EXCEPT !.isValid = isValid, !.relay = ""]
     IN contact' = IF isValid THEN [c EXCEPT !.pc = "send"]
                   ELSE ContactRespond(c, 503)
  /\ UNCHANGED <<now, conversationCache, upstream, req, other, hist>>

\* ContactService.sendMessage up to its await: the POST of the form.
ContactSend(outcome) ==
  /\ contact.pc = "send"
  /\ contact' = [contact EXCEPT !.pc = "awaitSend", !.relay = outcome,
                                !.sendCalls = @ + 1]
  /\ UNCHANGED <<now, conversationCache, upstream, req, other, hist>>

\* sendMessage returns when result.success is truthy and throws otherwise;
\* the controller's catch answers 500.
ContactSent ==
  /\ contact.pc = "awaitSend"
  /\ contact' = IF contact.relay \in {"true", "truthy"}
                  THEN ContactRespond(contact, 200)
                  ELSE ContactRespond(contact, 500)
  /\ UNCHANGED <<now, conversationCache, upstream, req, other, hist>>

(* ----------------------------- specifications ------------------------- *)

\* createdAt of a new message: that of the newest one, or later.
CreatedAts == {upClock, upClock + 1}

\* The numerators of the values of Math.random().
Randoms == {0, RandDen - 1}

\* The bot and the indexing of upstream.
Upstream ==
  \/ \E c \in ConvIds, t \in CreatedAts : BotReply(c, t)
  \/ \E c \in ConvIds : Index(c)

Environment ==
  \/ Upstream
  \/ \E t \in Instants : Tick(t)

\* The steps of handleChatMessage before the message is sent; the request
\* arrives when no other is in flight.
Arrival ==
  \/ \E m \in MessageInputs, k \in HeaderKeys, c \in {NoConv} \cup ConvIds :
       other.pc = "idle" /\ Receive(m, k, c)
  \/ EnsureUser
  \/ UserReturn
  \/ EnsureConversation
  \/ ConversationReturn

\* The steps from the send on.
Exchange ==
  \/ \E ok \in BOOLEAN, lag \in BOOLEAN : SendMessage(ok, lag)
  \/ \E k \in Randoms : SendReturn(k)
  \/ \E k \in Randoms : Poll(k)
  \/ \E k \in Randoms : PollReturn(k)
  \/ History
  \/ HistoryReturn

Other ==
  \/ \E k \in Keys : OtherList(k, "c1")
  \/ OtherListReturn

\* listMessages calls of a request that ended before this one arrived.
Earlier ==
  \/ \E k \in Keys, c \in ConvIds : req.pc = "idle" /\ OtherList(k, c)
  \/ req.pc = "idle" /\ OtherListReturn

\* One request at a time.
Next == Environment \/ Earlier \/ Arrival \/ Exchange

Spec == Init /\ [][Next]_vars

\* A request of the owner of an existing conversation, with listMessages calls
\* of other requests on that conversation in flight.
Returning ==
  \/ Receive(JsString(<<Run(FALSE, 1)>>), "k1", "c1")
  \/ EnsureUser
  \/ EnsureConversation

\* The requests overlap within seconds: the clock stays where it is.
NextConc == Upstream \/ Returning \/ Exchange \/ Other

SpecConc == Init /\ [][NextConc]_vars

\* The same overlap of requests, spread over minutes: the clock advances, the
\* bot stays silent.
NextTimed ==
  \/ \E t \in Instants : Tick(t)
  \/ \E c \in ConvIds : Index(c)
  \/ Returning
  \/ Exchange
  \/ Other

SpecTimed == Init /\ [][NextTimed]_vars

\* A request of a known user, in the existing conversation or in a new one.
Opening ==
  \/ \E c \in {NoConv, "c1"} : Receive(JsString(<<Run(FALSE, 1)>>), "k1", c)
  \/ EnsureUser
  \/ EnsureConversation
  \/ ConversationReturn

\* Requests that overlap, and a caller that clears the cache between their
\* steps; the bot stays silent.
NextClear ==
  \/ \E c \in ConvIds : Index(c)
  \/ Opening
  \/ Exchange
  \/ Other
  \/ \E c \in ConvIds : clearConversationCache(c)
  \/ clearAllCache

SpecClear == Init /\ [][NextClear]_vars

\* The limits a caller passes to getConversationHistory, or none.
Limits == {NoLimit} \cup 0..MaxLimit

\* A request in the existing conversation, and getConversationHistory calls
\* on that conversation.
NextHistory ==
  \/ Upstream
  \/ Returning
  \/ Exchange
  \/ \E k \in Keys, limit \in Limits : GetConversationHistory(k, "c1", limit)
  \/ GetConversationHistoryReturn

SpecHistory == Init /\ [][NextHistory]_vars

\* A contact submission.
NextContact ==
  \/ /\ contact.pc = "idle"
     /\ \E name \in NameInputs, email \in EmailInputs, message \in NameInputs :
          ContactSubmit(name, email, message)
  \/ \E outcome \in RelayOutcomes : ContactValidate(outcome)
  \/ ContactValidated
  \/ \E outcome \in RelayOutcomes : ContactSend(outcome)
  \/ ContactSent

SpecContact == Init /\ [][NextContact]_vars

(* -------------------------------- properties -------------------------- *)

\* Upstream calls the request has made.
UpstreamCalls ==
  hist.calls.createUser + hist.calls.createConversation
    + hist.calls.sendMessage + hist.calls.listMessages

\* A message that is missing, not a string, empty, whitespace-only or longer
\* than 5000 characters.
Unacceptable(m) ==
  \/ m.t # "string"
  \/ \A j \in 1..Len(m.runs) : m.runs[j].ws
  \/ SumRuns(m.runs) > 5000

\* A step in which a listMessages call of the request is answered from the cache.
PollFromCache == req.pc = "sleep" /\ req' # req /\ req'.pc # "awaitPoll"
HistoryFromCache == req.pc = "history" /\ req'.pc = "done"
ListFromCache == PollFromCache \/ HistoryFromCache

\* A step in which the waiter gets the list of an attempt, and that list.
PollGetsList ==
  \/ PollFromCache
  \/ req.pc = "awaitPoll" /\ req.resp.ok = "ok" /\ req' # req
PolledList ==
  IF req.pc = "awaitPoll" THEN req.resp.messages
  ELSE IF req.currentConversationId \in DOMAIN conversationCache
    THEN conversationCache[req.currentConversationId].messages
  ELSE << >>

\* The messages of a list that the claims call later than the sent one.
LaterThanSent(messages, sent) ==
  {j \in 1..Len(messages) :
     messages[j].id # sent.id /\ messages[j].createdAt > sent.createdAt}

FiveMinutes == 5 * 60 * 1000

\* C1: a chat request whose message is missing, not a string, empty,
\* whitespace-only or longer than 5000 characters is answered with 400 and
\* makes no upstream call, whatever key and conversation id come with it.
C1_InvalidMessageIs400 ==
  [][req.pc = "idle" /\ req'.pc # "idle" /\ Unacceptable(req'.message)
       => req'.pc = "done" /\ req'.status = 400 /\ UpstreamCalls' = 0]_vars

\* C2: the step in which a sendMessage for conversation c succeeds leaves the
\* cache without an entry for c, so that a get for c made right after it is a
\* miss, whatever the cache held for c before.
C2_SendInvalidates ==
  [][req.pc = "awaitSend" /\ req.resp.ok = "ok" /\ req'.pc # "awaitSend"
       => /\ req.currentConversationId \notin DOMAIN conversationCache'
          /\ ~CacheHit(conversationCache', now', req.currentConversationId)]_vars

\* C2 witness: the send has just succeeded, and it removed an entry.
C2_Witness ==
  /\ req.pc = "sleep" /\ req.i = 0 /\ hist.polls = 0
  /\ hist.dropped
  /\ req.currentConversationId \notin DOMAIN conversationCache

\* C3: a listMessages call is answered from the cache only with an entry
\* younger than 5 minutes: at an age of exactly 5 minutes, or more, the get is
\* a miss.
C3_NoEntryPastTtl ==
  [][ListFromCache
       => /\ req.currentConversationId \in DOMAIN conversationCache
          /\ now - conversationCache[req.currentConversationId].lastUpdated
               < FiveMinutes]_vars

\* C3 witness: a poll has just missed on an entry that is exactly 5 minutes old.
C3_Witness ==
  /\ req.pc = "awaitPoll"
  /\ req.currentConversationId \in DOMAIN conversationCache
  /\ now - conversationCache[req.currentConversationId].lastUpdated = FiveMinutes

\* C4: when the list of a poll holds several messages later than the sent one,
\* the waiter returns the one with the earliest createdAt among them, in
\* whatever order the list presents them.
C4_EarliestReply ==
  [][PollGetsList /\ req'.exit = "reply"
       /\ Cardinality(LaterThanSent(PolledList, req.sentMessage)) >= 2
       => \A j \in LaterThanSent(PolledList, req.sentMessage) :
            req'.botResponse.createdAt <= PolledList[j].createdAt]_vars

\* C5: if upstream lists a message later than the sent one at the time of a
\* poll of the waiter, the waiter does not return null.
C5_ReplyIsReturned ==
  req.exit \in {"nochange", "attempts"} => ~hist.replyAtPoll

\* C6: the list a listMessages call returns is the one upstream lists for the
\* conversation at the time of the call, also when the cache answers.
C6_ListIsUpstream ==
  [][(PollFromCache \/ HistoryFromCache)
       => PolledList = Listed(req.currentConversationId)]_vars

\* C7: once a sendMessage for a conversation has succeeded, a listMessages
\* call for it returns a list that upstream served after that send, under
\* every interleaving with the calls of other requests.
C7_ReadAfterSendIsFresh ==
  [][ListFromCache
       => hist.cacheAsOf[req.currentConversationId]
            >= hist.sendSeq[req.currentConversationId]]_vars

\* The last three counts of cs did not grow over the one before each.
ThreeNoGrowth(cs) ==
  /\ Len(cs) >= 4
  /\ \A j \in (Len(cs) - 2)..Len(cs) : cs[j] <= cs[j - 1]

\* The last three counts of cs are each the same as the one before.
ThreeUnchanged(cs) ==
  /\ Len(cs) >= 4
  /\ \A j \in (Len(cs) - 2)..Len(cs) : cs[j] = cs[j - 1]

\* A step in which the waiter gets a list that holds the sent message.
PollFindsSent ==
  PollGetsList /\ Find(PolledList, req.sentMessage.id) # NullMsg

\* The waiter stops, returning null.
StopsOnNoChange ==
  /\ req'.pc = "history"
  /\ req'.exit = "nochange"
  /\ req'.botResponse = NullMsg

InWaiter == req.pc \in {"sleep", "awaitPoll"}

\* What is left of the waiter's loop: two steps for each attempt not begun,
\* one for an attempt whose list is awaited.
Remaining(r) == 2 * (15 - r.i) - (IF r.pc = "awaitPoll" THEN 1 ELSE 0)

\* C9: every step of the waiter either leaves it in its loop with less of the
\* loop remaining and no more than 15 polls made, or ends it; it therefore
\* ends, after at most 15 polls, and in one way only: a reply found, the
\* no-change limit, the attempt limit, or a failed poll, with a reply
\* returned in the first only.
C9_WaiterTerminates ==
  [][InWaiter /\ req' # req
       => \/ /\ InWaiter'
             /\ req'.exit = ""
             /\ Remaining(req') < Remaining(req)
             /\ Remaining(req') > 0
             /\ hist'.polls <= 15
          \/ /\ req'.pc = "history"
             /\ req'.exit \in {"reply", "nochange", "attempts", "error"}
             /\ req'.exit = "reply" <=> req'.botResponse # NullMsg
             /\ req'.exit = "attempts" => req.i = 14]_vars

\* C9 witness: the waiter has ended on its attempt limit.
C9_Witness == req.pc = "history" /\ req.exit = "attempts" /\ ~hist.early

RECURSIVE Pow(_, _)
Pow(b, n) == IF n = 0 THEN 1 ELSE b * Pow(b, n - 1)

\* min(500 * 1.5^i, 3000) ms in 1/16 ms: 500 * 1.5^i is below 3000 exactly
\* when 3^i <= 6 * 2^i.
Base(i) ==
  IF Pow(3, i) <= 6 * Pow(2, i) THEN (500 * 16 * Pow(3, i)) \div Pow(2, i)
  ELSE 3000 * 16

\* C10: the backoff slept before poll i lies between base(i) = min(500 *
\* 1.5^i, 3000) ms and 1.1 * base(i); base(i) does not decrease with i; and
\* from the first capped attempt on the backoff lies in [3000, 3300] ms.
C10_BackoffBounds ==
  req.pc = "sleep" =>
    /\ req.i \in 0..14
    /\ Base(req.i) * 10 * RandDen <= req.backoffTime
    /\ req.backoffTime * 10 <= 11 * Base(req.i) * 10 * RandDen
    /\ req.i < 14 => Base(req.i) <= Base(req.i + 1)
    /\ Base(req.i) = 3000 * 16 =>
         /\ 3000 * BackoffUnit <= req.backoffTime
         /\ req.backoffTime <= 3300 * BackoffUnit

\* C10 witness: the waiter sleeps a capped backoff with its jitter before
\* the last poll.
C10_Witness ==
  req.pc = "sleep" /\ req.i = 14 /\ req.backoffTime > 3000 * BackoffUnit

\* The request passed the validation of its input.
ValidRequest == hist.calls.sendMessage > 0 \/ ~Unacceptable(req.message)

\* The sendMessage call of the request has returned its message.
SendSucceeded == \E c \in ConvIds : hist.sendSeq[c] > 0

\* C11: a valid request is answered once, and with 200 exactly when its
\* sendMessage call succeeded, however the wait for the reply and the history
\* list end; no request is answered twice, and none before it is done.
C11_OneResponse200IffSent ==
  /\ req.responses <= 1
  /\ req.pc = "done" <=> req.responses = 1
  /\ req.pc = "done" /\ ValidRequest => (req.status = 200 <=> SendSucceeded)
  /\ SendSucceeded /\ req.pc = "done" => req.exit # ""

\* C11 witness: a 200 after a wait that ran out of attempts and a history
\* that is empty.
C11_Witness ==
  /\ req.pc = "done" /\ req.status = 200 /\ req.responses = 1
  /\ req.exit = "attempts" /\ req.messages = << >>

\* The request ends with a 500 and the code, the failed call being its last.
FailsWith(code) ==
  /\ req'.pc = "done" /\ req'.status = 500 /\ req'.code = code
  /\ hist'.calls = hist.calls

\* C12: when createUser, createConversation or sendMessage fails, the request
\* ends with a 500 that carries USER_CREATION_FAILED,
\* CONVERSATION_CREATION_FAILED or MESSAGE_SEND_FAILED, no call later in the
\* handler has been made, and none is made after the response.
C12_FatalFailures ==
  [][/\ req.pc = "awaitUser" /\ req.resp.ok # "ok" /\ req' # req
          => /\ FailsWith("USER_CREATION_FAILED")
             /\ hist.calls = [NoCalls EXCEPT !.createUser = 1]
     /\ req.pc = "awaitConv" /\ req.resp.ok # "ok" /\ req' # req
          => /\ FailsWith("CONVERSATION_CREATION_FAILED")
             /\ hist.calls.createConversation = 1
             /\ hist.calls.sendMessage = 0 /\ hist.calls.listMessages = 0
     /\ req.pc = "awaitSend" /\ req.resp.ok # "ok" /\ req' # req
          => /\ FailsWith("MESSAGE_SEND_FAILED")
             /\ hist.calls.sendMessage = 1 /\ hist.calls.listMessages = 0
     /\ req.pc = "done" => req' = req /\ hist'.calls = hist.calls]_vars

\* C12 witness: the creation of the conversation has failed for a user just
\* created.
C12_Witness ==
  /\ req.pc = "done" /\ req.status = 500
  /\ req.code = "CONVERSATION_CREATION_FAILED"
  /\ hist.calls = [NoCalls EXCEPT !.createUser = 1, !.createConversation = 1]

\* C13: a poll that fails after a successful send leaves the request alive:
\* the waiter's error is swallowed with botResponse null, the handler goes on
\* to the history list, and only from there answers, with 200 and the sent
\* message.
C13_WaitFailureIsNotFatal ==
  [][/\ req.pc = "awaitPoll" /\ req.resp.ok # "ok" /\ req' # req
          => /\ req'.pc = "history" /\ req'.exit = "error"
             /\ req'.botResponse = NullMsg
             /\ req'.sentMessage = req.sentMessage
     /\ req.exit = "error" /\ req' # req
          => /\ req.pc \in {"history", "awaitHistory"}
             /\ req'.exit = "error"
             /\ req'.botResponse = NullMsg
             /\ req'.sentMessage = req.sentMessage
             /\ req.sentMessage # NullMsg
             /\ req'.pc = "done" => req'.status = 200]_vars

\* C13 witness: a 200 with the sent message and no reply, after a failed poll.
C13_Witness ==
  /\ req.pc = "done" /\ req.status = 200 /\ req.exit = "error"
  /\ req.botResponse = NullMsg /\ req.sentMessage # NullMsg

\* C14: when the history's listMessages fails after a successful send, the
\* response is 200 with an empty message list, the sent message, and the
\* reply the waiter returned, if any.
C14_HistoryFailureIsNotFatal ==
  [][req.pc = "awaitHistory" /\ req.resp.ok = "fail" /\ req' # req
       => /\ req'.pc = "done" /\ req'.status = 200 /\ req'.code = ""
          /\ req'.messages = << >>
          /\ req.sentMessage # NullMsg
          /\ req'.sentMessage = req.sentMessage
          /\ req'.botResponse = req.botResponse
          /\ SendSucceeded]_vars

\* C14 witness: a 200 that carries a reply and an empty history: the list
\* that held the reply could not be had again.
C14_Witness ==
  /\ req.pc = "done" /\ req.status = 200
  /\ req.botResponse # NullMsg /\ req.messages = << >>

\* The handler is past its user step, resp. its conversation step.
PastUser ==
  \/ req.pc \in {"ensureConv", "awaitConv", "send", "awaitSend", "sleep",
                 "awaitPoll", "history", "awaitHistory"}
  \/ req.pc = "done" /\ req.status = 200
  \/ req.pc = "done" /\ req.code \in {"CONVERSATION_CREATION_FAILED", "MESSAGE_SEND_FAILED"}
PastConversation ==
  \/ req.pc \in {"send", "awaitSend", "sleep", "awaitPoll", "history", "awaitHistory"}
  \/ req.pc = "done" /\ req.status = 200
  \/ req.pc = "done" /\ req.code = "MESSAGE_SEND_FAILED"
PastSend ==
  \/ req.pc \in {"awaitSend", "sleep", "awaitPoll", "history", "awaitHistory"}
  \/ req.pc = "done" /\ req.status = 200
  \/ req.pc = "done" /\ req.code = "MESSAGE_SEND_FAILED"

\* C15: a request that comes with a session key calls createUser never, one
\* that comes with a conversation id calls createConversation never; a
\* request without the key has called createUser once when it is past its
\* user step, one without the id has called createConversation once when it
\* is past its conversation step; and a request sends once, at most.
C15_CreationOnlyWhenAbsent ==
  /\ req.userKey # NoKey => hist.calls.createUser = 0
  /\ req.conversationId # NoConv => hist.calls.createConversation = 0
  /\ req.pc # "idle" /\ req.userKey = NoKey
       => hist.calls.createUser = (IF PastUser \/ req.pc \in {"awaitUser"} \/ req.code = "USER_CREATION_FAILED" THEN 1 ELSE 0)
  /\ req.pc # "idle" /\ req.conversationId = NoConv
       => hist.calls.createConversation = (IF PastConversation \/ req.pc = "awaitConv" \/ req.code = "CONVERSATION_CREATION_FAILED" THEN 1 ELSE 0)
  /\ hist.calls.sendMessage = (IF PastSend THEN 1 ELSE 0)
  /\ ~PastSend => hist.calls.listMessages = 0

\* C15 witness: a request with key and conversation id has been answered
\* after its send and its lists, without a creation.
C15_Witness ==
  /\ req.pc = "done" /\ req.status = 200
  /\ req.userKey # NoKey /\ req.conversationId # NoConv
  /\ hist.calls.createUser = 0 /\ hist.calls.createConversation = 0
  /\ hist.calls.sendMessage = 1 /\ hist.calls.listMessages > 0

\* C16: the waiter ends with an error exactly when a poll of it has failed
\* (upstream answered with an error, or with a body without the message
\* list), and then with no result; it ends with null exactly when it leaves through
\* the attempt limit or the no-change limit, and then the list of its last
\* poll, if it holds the sent message, has given it no later one; otherwise
\* it ends with the reply.
C16_NullIsNotError ==
  [][InWaiter /\ req'.pc = "history"
       => /\ req'.exit = "error" <=> (req.pc = "awaitPoll" /\ req.resp.ok # "ok")
          /\ req'.botResponse = NullMsg <=> req'.exit \in {"attempts", "nochange", "error"}
          /\ req'.exit \in {"attempts", "nochange"}
               => /\ PollGetsList
                  /\ \/ Find(PolledList, req.sentMessage.id) = NullMsg
                     \/ LaterThanSent(PolledList, req.sentMessage) = {}
          /\ req'.exit = "reply"
               => /\ PollGetsList
                  /\ \E j \in LaterThanSent(PolledList, req.sentMessage) :
                       PolledList[j] = req'.botResponse]_vars

\* C16 witness: the waiter has just ended with the error of a failed poll.
C16_Witness ==
  req.pc = "history" /\ req.exit = "error" /\ req.botResponse = NullMsg

\* An address in the format of the check: no whitespace, one "@" that is not
\* the first character, and after it a "." with a character on either side.
WellFormedAddress(chars) ==
  /\ Cardinality({p \in 1..Len(chars) : chars[p] = "@"}) = 1
  /\ \A p \in 1..Len(chars) : chars[p] # " "
  /\ chars[1] # "@"
  /\ \E p \in 3..(Len(chars) - 1) :
       chars[p] = "." /\ chars[p - 1] # "@" /\ \E q \in 1..(p - 2) : chars[q] = "@"

\* C17: a contact submission without a name, an email or a message (none, or
\* an empty or falsy one), or with an email that is not a well-formed address,
\* is answered 400 without any call of the relay; any other is answered 503
\* after a connection check that failed, without a send, 500 after a send
\* that failed, and 200 after a send the relay reported as a success.
C17_ContactStatuses ==
  contact.pc = "done" =>
    IF \/ ~contact.name.truthy \/ ~contact.email.truthy \/ ~contact.message.truthy
       \/ ~WellFormedAddress(contact.email.chars)
      THEN /\ contact.status = 400
           /\ contact.validateCalls = 0 /\ contact.sendCalls = 0
      ELSE /\ contact.validateCalls = 1
           /\ contact.status \in {503, 500, 200}
           /\ contact.status = 503 <=> ~contact.isValid
           /\ contact.status = 503 => contact.sendCalls = 0
           /\ contact.status # 503 => contact.sendCalls = 1
           /\ contact.status = 200 <=>
                contact.isValid /\ contact.relay \in {"true", "truthy"}

\* C17 witness: a submission with an email without "@" has been answered 400
\* with no call of the relay.
C17_Witness ==
  /\ contact.pc = "done" /\ contact.status = 400
  /\ contact.name.truthy /\ contact.message.truthy
  /\ contact.email = FormString(<<"a", "a", "a">>)
  /\ contact.validateCalls = 0 /\ contact.sendCalls = 0

\* C18: a poll whose list lacks the sent message ends its attempt with
\* nothing returned: the waiter goes on to the next attempt with its no-change
\* counter and its last count as they were, or, after the 15th attempt,
\* returns null; so that a waiter whose lists never hold the sent message
\* leaves in no other way, and after 15 attempts.
C18_AbsentSentMessage ==
  [][/\ PollGetsList /\ Find(PolledList, req.sentMessage.id) = NullMsg
          => \/ /\ req'.pc = "sleep" /\ req'.i = req.i + 1 /\ req'.exit = ""
                /\ req'.noChangeCount = req.noChangeCount
                /\ req'.lastKnownMessageCount = req.lastKnownMessageCount
                /\ req'.botResponse = NullMsg
             \/ /\ req.i = 14 /\ hist'.early = FALSE
                /\ req'.pc = "history" /\ req'.exit = "attempts"
                /\ req'.botResponse = NullMsg
     /\ InWaiter /\ req'.exit \in {"nochange", "reply"}
          => PollGetsList /\ Find(PolledList, req.sentMessage.id) # NullMsg]_vars

\* C18 witness: fourteen polls have not found the sent message, the waiter
\* sleeps before the last with its counters untouched.
C18_Witness ==
  /\ req.pc = "sleep" /\ req.i = 14 /\ hist.counts = << >>
  /\ req.noChangeCount = 0 /\ req.lastKnownMessageCount = 0

\* A step that begins a listMessages call, of the request or of another one:
\* the cache get.
CacheGet ==
  \/ req.pc \in {"sleep", "history"} /\ req' # req
  \/ other.pc = "idle" /\ other' # other

PastTtl(entry) == now - entry.lastUpdated > FiveMinutes

\* C19: every cache get first evicts all the entries older than their ttl, of
\* whatever conversation: after the get no such entry is left, no entry has
\* been added, and every entry that is not older than its ttl is still there,
\* unchanged.
C19_GetEvictsExpired ==
  [][CacheGet =>
       /\ DOMAIN conversationCache' \subseteq DOMAIN conversationCache
       /\ \A d \in DOMAIN conversationCache' : ~PastTtl(conversationCache'[d])
       /\ \A d \in DOMAIN conversationCache :
            ~PastTtl(conversationCache[d])
              => /\ d \in DOMAIN conversationCache'
                 /\ conversationCache'[d] = conversationCache[d]]_vars

\* C19 witness: the list of the first poll was cached at time 0; a later poll,
\* past the ttl, has evicted it and asks upstream.
C19_Witness ==
  /\ req.pc = "awaitPoll" /\ req.i >= 1 /\ now > CACHE_TTL
  /\ req.currentConversationId \notin DOMAIN conversationCache

\* A step that ends a listMessages call with a list from upstream: the cache
\* put, of the request and of the other one.
ReqPut ==
  req.pc \in {"awaitPoll", "awaitHistory"} /\ req' # req /\ req.resp.ok = "ok"

OtherPut == other.pc = "awaitList" /\ other' # other /\ other.resp.ok = "ok"

\* The step has put messages as the entry of c and nothing else.
PutIs(c, messages) ==
  /\ DOMAIN conversationCache' = DOMAIN conversationCache \cup {c}
  /\ conversationCache'[c] =
       [messages |-> messages, lastUpdated |-> now, ttl |-> FiveMinutes]
  /\ \A d \in DOMAIN conversationCache \ {c} :
       conversationCache'[d] = conversationCache[d]

ClearStep ==
  /\ req' = req /\ other' = other
  /\ conversationCache' # conversationCache \/ hist'.cleared # hist.cleared

\* The step removed the entries of the conversations cs and nothing else;
\* removing them again changes nothing.
Removed(cs) ==
  /\ hist'.cleared = hist.cleared \cup cs
  /\ DOMAIN conversationCache' = DOMAIN conversationCache \ cs
  /\ \A d \in DOMAIN conversationCache' :
       conversationCache'[d] = conversationCache[d]
  /\ \A c \in cs : CacheDelete(conversationCache', c) = conversationCache'

\* A clearing step removes the entry of one conversation, leaving every other
\* entry as it was, or every entry.
ClearRemoves ==
  ClearStep => \/ \E c \in ConvIds : Removed({c})
               \/ Removed(ConvIds) /\ DOMAIN conversationCache' = {}

\* C21: clearConversationCache(c) removes the entry of c and no other, twice
\* as once, clearAllCache removes every entry, and the first listMessages
\* call for a cleared conversation that begins after the clearing asks
\* upstream.
C21_ClearedIsFetched ==
  [][/\ ClearRemoves
     /\ req.pc \in {"sleep", "history"} /\ req' # req
           /\ req.currentConversationId \in hist.cleared
          => req'.pc \in {"awaitPoll", "awaitHistory"}
     /\ other.pc = "idle" /\ other' # other /\ "c1" \in hist.cleared
          => other'.pc = "awaitList"]_vars

\* The part of the handler the request is in.
Phase(pc) ==
  CASE pc = "idle" -> 0
    [] pc \in {"ensureUser", "awaitUser"} -> 1
    [] pc \in {"ensureConv", "awaitConv"} -> 2
    [] pc \in {"send", "awaitSend"} -> 3
    [] pc \in {"sleep", "awaitPoll"} -> 4
    [] pc \in {"history", "awaitHistory"} -> 5
    [] OTHER -> 6

Awaits == {"awaitUser", "awaitConv", "awaitSend", "awaitPoll", "awaitHistory"}

\* The step begins an upstream call of the request, of the given kind.
Began(call) == hist'.calls[call] = hist.calls[call] + 1

CallsMade(h) ==
  h.calls.createUser + h.calls.createConversation + h.calls.sendMessage
    + h.calls.listMessages

\* The session key adopted in the user step: the header's, or the new user's.
AdoptedKey == IF req.userKey # NoKey THEN req.userKey ELSE NewKey

\* C22: the request never begins an upstream call while it awaits another, and
\* it moves through createUser (if any), createConversation (if any),
\* sendMessage, the polls and the history list in this order, the first three
\* at most once; createConversation and sendMessage carry the session key
\* adopted in the user step; the conversation id adopted in the conversation
\* step, the body's or the one createConversation returned, is the one the
\* send, the polls and the history list carry.
C22_CallsInOrder ==
  [][/\ Phase(req'.pc) >= Phase(req.pc)
     /\ hist'.calls # hist.calls
          => /\ req.pc \notin Awaits /\ req'.pc \in Awaits
             /\ CallsMade(hist') = CallsMade(hist) + 1
     /\ Began("createUser")
          => Phase(req.pc) = 1 /\ hist.calls.createUser = 0
     /\ Began("createConversation")
          => /\ Phase(req.pc) = 2 /\ hist.calls.createConversation = 0
             /\ hist'.args.key = AdoptedKey
     /\ Began("sendMessage")
          => /\ Phase(req.pc) = 3 /\ hist.calls.sendMessage = 0
             /\ hist'.args = [key |-> AdoptedKey, conv |-> req.currentConversationId]
     /\ Began("listMessages")
          => /\ Phase(req.pc) \in {4, 5}
             /\ hist'.args.conv = req.currentConversationId
     /\ Phase(req.pc) = 2 /\ Phase(req'.pc) = 3
          => req'.currentConversationId =
               IF req.conversationId # NoConv THEN req.conversationId
               ELSE req.resp.conv
     /\ Phase(req.pc) >= 3
          => req'.currentConversationId = req.currentConversationId]_vars

\* C22 witness: a request without key and conversation has created both, sent
\* its message and polled upstream, and now awaits the history list.
C22_Witness ==
  /\ req.pc = "awaitHistory"
  /\ req.userKey = NoKey /\ req.conversationId = NoConv
  /\ hist.calls.createUser = 1 /\ hist.calls.createConversation = 1
  /\ hist.calls.sendMessage = 1 /\ hist.calls.listMessages >= 2
  /\ hist.args = [key |-> NewKey, conv |-> req.currentConversationId]

\* C23: the body of every 200 response carries the envelope this request's
\* sendMessage returned, the conversation id that send used with isStarted
\* true, the session key that send used, and as botResponse either null or a
\* message other than the sent one and created strictly later than it.
C23_ResponseOfTheSend ==
  req.pc = "done" /\ req.status = 200
    => LET body == Response(req)
       IN /\ hist.calls.sendMessage = 1
          /\ body.message = hist.sent.msg /\ body.message # NullMsg
          /\ body.conversation = [id |-> hist.sent.conv, isStarted |-> TRUE]
          /\ body.user.key = hist.sent.key
          /\ \/ body.botResponse = NullMsg
             \/ /\ body.botResponse.id # body.message.id
                /\ body.botResponse.createdAt > body.message.createdAt

\* C23 witness: a 200 response of a request that came without key and
\* conversation, with a bot message.
C23_Witness ==
  /\ req.pc = "done" /\ req.status = 200
  /\ req.userKey = NoKey /\ req.conversationId = NoConv
  /\ req.botResponse # NullMsg /\ hist.sent.key = NewKey

\* C24: no listMessages call returns the messages of a conversation to a key
\* that upstream does not accept for it, also when the list of an earlier call
\* with an accepted key is in the cache.
C24_ListOnlyToAcceptedKey ==
  /\ ~hist.unaccepted
  /\ other.pc = "awaitList" /\ other.resp.ok = "ok"
       => Accepts(other.userKey, other.conversationId)
  /\ req.pc \in {"awaitPoll", "awaitHistory"} /\ req.resp.ok = "ok"
       => Accepts(req.currentUserKey, req.currentConversationId)

\* The step gives the waiter a list that holds the sent message and none
\* later, of the size of the list of every poll before it.
SameListAgain ==
  /\ PollFindsSent
  /\ LaterThanSent(PolledList, req.sentMessage) = {}
  /\ Len(hist.counts) = req.i
  /\ \A j \in 1..Len(hist.counts) : hist.counts[j] = Len(PolledList)

\* C25: when every poll returns the same list, with the sent message and no
\* later one, the first poll sets the observed count and leaves the no-change
\* counter at 0, the second and the third raise it to 1 and 2 and the waiter
\* goes on, and the fourth ends the waiter, which returns null.
C25_NullAfterFourPolls ==
  [][SameListAgain
       => /\ req.i <= 3
          /\ req.i = 0 => /\ req'.noChangeCount = 0
                          /\ req'.lastKnownMessageCount = Len(PolledList)
          /\ req.i < 3 => /\ req'.pc = "sleep" /\ req'.exit = ""
                          /\ req'.i = req.i + 1
                          /\ req'.noChangeCount = req.i
          /\ req.i = 3 => StopsOnNoChange /\ hist'.early]_vars

\* C25 witness: three polls have returned the same list, of the sent message
\* alone, and the waiter sleeps before the fourth.
C25_Witness ==
  /\ req.pc = "sleep" /\ req.i = 3 /\ req.noChangeCount = 2
  /\ hist.counts = <<1, 1, 1>> /\ req.lastKnownMessageCount = 1

\* A step in which an upstream call returns to its caller without success:
\* the POST of the message, the GET of a list that failed or whose body has no
\* messages field.
SendFails == req.pc = "awaitSend" /\ req' # req /\ req.resp.ok # "ok"

ListFails ==
  \/ req.pc \in {"awaitPoll", "awaitHistory"} /\ req' # req /\ req.resp.ok # "ok"
  \/ other.pc = "awaitList" /\ other' # other /\ other.resp.ok # "ok"

\* C26: an upstream call that fails leaves the cache as it was: a failed
\* sendMessage leaves the entry of its conversation in place, and a list fetch
\* that failed, or whose body has no messages field, adds no entry and
\* refreshes none.
C26_FailureKeepsCache ==
  [][SendFails \/ ListFails => conversationCache' = conversationCache]_vars

\* C26 witness: the send of a request has failed and the list cached for its
\* conversation before is still there.
C26_Witness ==
  /\ req.pc = "done" /\ req.code = "MESSAGE_SEND_FAILED"
  /\ req.currentConversationId \in DOMAIN conversationCache

\* A step in which a getConversationHistory call ends.
HistoryEnds ==
  \/ other.pc = "idle" /\ other'.pc = "idle" /\ other'.calls # other.calls
  \/ other.pc = "awaitHistoryList" /\ other' # other

\* What the claim has a call return: the last min(limit, n) of the n messages.
LastOf(messages, limit) ==
  LET n == Len(messages)
  IN SubSeq(messages, n - Min(limit, n) + 1, n)

\* C27: getConversationHistory returns, for every limit >= 0, the last
\* min(limit, n) messages of the n listMessages returned, in their order, and
\* so at most limit messages, with a limit of 50 when none is passed; when
\* listMessages fails the call throws.
C27_LastLimitMessages ==
  [][HistoryEnds
       => LET h == hist'.history
              limit == IF h.limit = NoLimit THEN 50 ELSE h.limit
          IN /\ h.outcome = "returned"
                  => /\ Len(h.returned) <= limit
                     /\ h.returned = LastOf(h.messages, limit)
             /\ h.outcome = "threw"
                  <=> other.pc = "awaitHistoryList" /\ other.resp.ok # "ok"]_vars

====
